---- MODULE Spec2Model ----
(***************************************************************************)
(* Model of scripts/gen_tables.py: the generator of the radix-2 twiddle    *)
(* (sine) tables and of the bit-reversal tables of microfft.               *)
(*                                                                         *)
(* The program is main(): emit_header(); emit_sine(N); emit_bitrev(N).     *)
(* Its state is the position in the code (pc), the argument max_n, the     *)
(* loop variables n, k, i, nbits and the text printed so far (out, one     *)
(* token per print call).                                                  *)
(***************************************************************************)
EXTENDS Integers, Sequences, FiniteSets

VARIABLES pc, max_n, n, k, i, nbits, out

vars == <<pc, max_n, n, k, i, nbits, out>>

(* Bounds of the model. *)
MaxN == 16
MaxNeg == 2
MaxOut == 120

(* The values of args.N explored: argparse's type=int accepts any integer. *)
InputN == (0 - MaxNeg)..MaxN

(***************************************************************************)
(* Output tokens: one per print call.  x and y carry the numbers printed.  *)
(***************************************************************************)
Tok(tag, x, y) == [tag |-> tag, x |-> x, y |-> y]

Emit(o, toks) == o \o toks

(* Room left in the explored output (caps a run that never stops printing). *)
Room == Len(out) < MaxOut

(***************************************************************************)
(* Bit operations of Python on non-negative integers.                      *)
(***************************************************************************)
Shl(a, s) == a * (2 ^ s)

RECURSIVE BitAnd(_, _)
BitAnd(a, b) ==
    IF a = 0 \/ b = 0 THEN 0
    ELSE ((a % 2) * (b % 2)) + 2 * BitAnd(a \div 2, b \div 2)

RECURSIVE BitOr(_, _)
BitOr(a, b) ==
    IF a = 0 THEN b
    ELSE IF b = 0 THEN a
    ELSE (IF (a % 2) + (b % 2) > 0 THEN 1 ELSE 0) + 2 * BitOr(a \div 2, b \div 2)

(* int(math.log2(n)) for n >= 1. *)
RECURSIVE IntLog2(_)
IntLog2(m) == IF m <= 1 THEN 0 ELSE 1 + IntLog2(m \div 2)

(***************************************************************************)
(* reverse_bits(num, nbits)                                                *)
(***************************************************************************)
RevTargetShifted(nb, j) == nb - j

(* the bit position that bit j of num is moved to *)
RevTarget(nb, j) == nb - 1 - j

RECURSIVE rb_loop(_, _, _, _)
rb_loop(num, nb, j, reverse) ==
    IF j >= nb THEN reverse
    ELSE rb_loop(num, nb, j + 1,
                 IF BitAnd(num, Shl(1, j)) # 0
                 THEN BitOr(reverse, Shl(1, RevTarget(nb, j)))
                 ELSE reverse)

reverse_bits(num, nb) == rb_loop(num, nb, 0, 0)

BitrevEntryFull(rev, idx) == rev

(* entry = rev if rev > i else i *)
BitrevEntry(rev, idx) == IF rev > idx THEN rev ELSE idx

(***************************************************************************)
(* Loop conditions and ranges.                                             *)
(***************************************************************************)
SineLoopCondIncl(m) == m >= 2

SineLoopCondNe(m) == m # 2

(* while n > 2 *)
SineLoopCond(m) == m > 2

(* n //= 2 *)
Halve(m) == m \div 2

SineStopIncl(m) == (m \div 4) + 1

(* range(1, n // 4): the exclusive upper end *)
SineStop(m) == m \div 4

(* the argument of math.sin, -2*pi*k/n, as the rational x/y multiple of pi *)
SineArg(kk, m) == Tok("sine", (0 - 2) * kk, m)

KwAlwaysIf(m, mx) == "if"

(* kw = "if" if n == max_n else "else if" *)
Kw(m, mx) == IF m = mx THEN "if" ELSE "else if"

BitrevLoopCondExcl(m, mx) == m < mx

(* while n <= max_n *)
BitrevLoopCond(m, mx) == m <= mx

(***************************************************************************)
(* The program.                                                            *)
(***************************************************************************)
Init ==
    /\ pc = "header"
    /\ max_n \in InputN
    /\ n = 0
    /\ k = 0
    /\ i = 0
    /\ nbits = 0
    /\ out = << >>

emit_header ==
    /\ pc = "header"
    /\ Room
    /\ out' = Emit(out, << Tok("doc", 0, 0), Tok("blank", 0, 0),
                            Tok("allow_excessive_precision", 0, 0),
                            Tok("allow_unreadable_literal", 0, 0),
                            Tok("blank", 0, 0) >>)
    /\ pc' = "sine"
    /\ UNCHANGED <<max_n, n, k, i, nbits>>

emit_sine_begin ==
    /\ pc = "sine"
    /\ Room
    /\ out' = Emit(out, << Tok("cfg_if_open", 0, 0) >>)
    /\ n' = max_n
    /\ pc' = "sine_loop"
    /\ UNCHANGED <<max_n, k, i, nbits>>

(* one iteration of the while loop up to the entry of emit_sine_table's for *)
emit_sine_branch ==
    /\ pc = "sine_loop"
    /\ SineLoopCond(n)
    /\ Room
    /\ out' = Emit(out, << Tok(Kw(n, max_n), n, 0), Tok("sine_open", 0, 0) >>)
    /\ k' = 1
    /\ pc' = "sine_table"
    /\ UNCHANGED <<max_n, n, i, nbits>>

(* one iteration of for k in range(1, n // 4) *)
emit_sine_sample ==
    /\ pc = "sine_table"
    /\ k < SineStop(n)
    /\ Room
    /\ out' = Emit(out, << SineArg(k, n) >>)
    /\ k' = k + 1
    /\ UNCHANGED <<pc, max_n, n, i, nbits>>

(* the end of emit_sine_table and the rest of the while body *)
emit_sine_table_end ==
    /\ pc = "sine_table"
    /\ ~(k < SineStop(n))
    /\ Room
    /\ out' = Emit(out, << Tok("sine_close", 0, 0), Tok("blank", 0, 0),
                            Tok("branch_close", 0, 0) >>)
    /\ n' = Halve(n)
    /\ pc' = "sine_loop"
    /\ UNCHANGED <<max_n, k, i, nbits>>

emit_sine_end ==
    /\ pc = "sine_loop"
    /\ ~SineLoopCond(n)
    /\ Room
    /\ out' = Emit(out, << Tok("blank", 0, 0), Tok("cfg_if_close", 0, 0),
                            Tok("blank", 0, 0) >>)
    /\ pc' = "bitrev"
    /\ UNCHANGED <<max_n, n, k, i, nbits>>

emit_bitrev_begin ==
    /\ pc = "bitrev"
    /\ Room
    /\ out' = Emit(out, << Tok("bitrev_attr", 0, 0), Tok("bitrev_open", 0, 0) >>)
    /\ n' = 1
    /\ pc' = "bitrev_loop"
    /\ UNCHANGED <<max_n, k, i, nbits>>

(* one iteration of the while loop up to the entry of emit_bitrev_table's for *)
emit_bitrev_table_begin ==
    /\ pc = "bitrev_loop"
    /\ BitrevLoopCond(n, max_n)
    /\ Room
    /\ out' = Emit(out, << Tok("table_open", 0, 0) >>)
    /\ nbits' = IntLog2(n)
    /\ i' = 0
    /\ pc' = "bitrev_table"
    /\ UNCHANGED <<max_n, n, k>>

(* one iteration of for i in range(n) *)
emit_bitrev_entry ==
    /\ pc = "bitrev_table"
    /\ i < n
    /\ Room
    /\ out' = Emit(out, << Tok("entry", BitrevEntry(reverse_bits(i, nbits), i), 0) >>)
    /\ i' = i + 1
    /\ UNCHANGED <<pc, max_n, n, k, nbits>>

(* the end of emit_bitrev_table and the rest of the while body *)
emit_bitrev_table_end ==
    /\ pc = "bitrev_table"
    /\ ~(i < n)
    /\ Room
    /\ out' = Emit(out, << Tok("table_close", 0, 0) >>)
    /\ n' = n * 2
    /\ pc' = "bitrev_loop"
    /\ UNCHANGED <<max_n, k, i, nbits>>

emit_bitrev_end ==
    /\ pc = "bitrev_loop"
    /\ ~BitrevLoopCond(n, max_n)
    /\ Room
    /\ out' = Emit(out, << Tok("bitrev_close", 0, 0), Tok("blank", 0, 0) >>)
    /\ pc' = "done"
    /\ UNCHANGED <<max_n, n, k, i, nbits>>

Next ==
    \/ emit_header
    \/ emit_sine_begin
    \/ emit_sine_branch
    \/ emit_sine_sample
    \/ emit_sine_table_end
    \/ emit_sine_end
    \/ emit_bitrev_begin
    \/ emit_bitrev_table_begin
    \/ emit_bitrev_entry
    \/ emit_bitrev_table_end
    \/ emit_bitrev_end

Spec == Init /\ [][Next]_vars

(* The interpreter runs the single thread to its end: a step that can be   *)
(* taken is taken.                                                         *)
LiveSpec == Init /\ [][Next]_vars /\ WF_vars(Next)

(***************************************************************************)
(* Reading the printed text back.                                          *)
(***************************************************************************)
Positions(tag) == {p \in DOMAIN out : out[p].tag = tag}

MinOf(S) == CHOOSE m \in S : \A q \in S : m <= q

MaxOf(S) == CHOOSE m \in S : \A q \in S : m >= q

(* the first token with the given tag after position p, 0 when there is none *)
NextAfter(p, tag) ==
    IF \E q \in Positions(tag) : q > p
    THEN MinOf({q \in Positions(tag) : q > p})
    ELSE 0

(* bit-reversal tables that have been closed, by the position of their opening *)
CompleteTables == {p \in Positions("table_open") : NextAfter(p, "table_close") > 0}

TableAt(p) == [j \in 1..(NextAfter(p, "table_close") - p - 1) |-> out[p + j].x]

(* 0-based position of a table in the BITREV collection *)
TableRank(p) == Cardinality({q \in Positions("table_open") : q < p})

TablesOfSize(s) == {TableAt(p) : p \in {q \in CompleteTables : Len(TableAt(q)) = s}}

(* the guards of the cfg_if chain, by position *)
Guards == Positions("if") \cup Positions("else if")

RECURSIVE SortedSeq(_)
SortedSeq(S) == IF S = {} THEN << >> ELSE << MinOf(S) >> \o SortedSeq(S \ {MinOf(S)})

GuardSizes == [j \in 1..Cardinality(Guards) |-> out[SortedSeq(Guards)[j]].x]

(* sine tables that have been closed, by the position of their opening *)
CompleteSineTables == {p \in Positions("sine_open") : NextAfter(p, "sine_close") > 0}

SineDone == pc \in {"bitrev", "bitrev_loop", "bitrev_table", "done"}

(***************************************************************************)
(* The mathematical notions the properties are stated with.                *)
(***************************************************************************)
MaxBits == IntLog2(MaxOut) + 1

Bit(x, j) == (x \div (2 ^ j)) % 2

IsPow2(m) == \E b \in 0..MaxBits : m = 2 ^ b

Log2Of(m) == CHOOSE b \in 0..MaxBits : m = 2 ^ b

(* the number whose bit j is bit b-1-j of x, for j in 0..b-1 *)
RevSpec(x, b) ==
    CHOOSE r \in 0..((2 ^ b) - 1) : \A j \in 0..(b - 1) : Bit(r, j) = Bit(x, b - 1 - j)

(* N, N/2, ..., 4 *)
DescChain(m) == [j \in 1..(Log2Of(m) - 1) |-> m \div (2 ^ (j - 1))]

IsPrefix(s, t) == Len(s) <= Len(t) /\ \A j \in 1..Len(s) : s[j] = t[j]

InvalidSize(m) == ~IsPow2(m) \/ m < 4

(***************************************************************************)
(* Properties.                                                             *)
(***************************************************************************)

(* the two statements of C1 about one closed table T share this shape: the *)
(* table has n = 2^b entries, entry i is i or the reversal r of i, the     *)
(* table of size 1 is [0]; Rule(e, r, idx) is the "if and only if" part    *)
EntryRuleAsWritten(e, r, idx) == (e = r) <=> (r > idx)

EntryRuleAmended(e, r, idx) == (e = idx) <=> (r <= idx)

TableShape(T) ==
    /\ IsPow2(Len(T))
    /\ \A idx \in 0..(Len(T) - 1) :
          T[idx + 1] \in {idx, RevSpec(idx, Log2Of(Len(T)))}
    /\ (Len(T) = 1 => T = << 0 >>)

(* C1 as written: every entry of every emitted bit-reversal table of size  *)
(* n = 2^b is i or reverse_bits(i, b), and it equals reverse_bits(i, b) if *)
(* and only if reverse_bits(i, b) > i; the table of size 1 is [0].         *)
C1_AsWritten ==
    \A p \in CompleteTables :
        LET T == TableAt(p) IN
        /\ TableShape(T)
        /\ \A idx \in 0..(Len(T) - 1) :
              EntryRuleAsWritten(T[idx + 1], RevSpec(idx, Log2Of(Len(T))), idx)

(* C1 amended: every entry of every emitted bit-reversal table of size     *)
(* n = 2^b is i or reverse_bits(i, b), and it equals i if and only if      *)
(* reverse_bits(i, b) <= i (so it is the larger of the two); the table of  *)
(* size 1 is [0].                                                          *)
C1_EntryIsMax ==
    \A p \in CompleteTables :
        LET T == TableAt(p) IN
        /\ TableShape(T)
        /\ \A idx \in 0..(Len(T) - 1) :
              EntryRuleAmended(T[idx + 1], RevSpec(idx, Log2Of(Len(T))), idx)

C1_Witness ==
    \E p \in CompleteTables :
        LET T == TableAt(p) IN Len(T) = 8 /\ T[2] = 4 /\ T[5] = 4 /\ T[1] = 0

(* C2 as written: for N = 8 the finished output holds the tables          *)
(* [0,4,2,6,1,5,3,7], [0,2,1,3] and [0,1] for the sizes 8, 4 and 2.        *)
C2_AsWritten ==
    (pc = "done" /\ max_n = 8) =>
        /\ TablesOfSize(8) = { << 0, 4, 2, 6, 1, 5, 3, 7 >> }
        /\ TablesOfSize(4) = { << 0, 2, 1, 3 >> }
        /\ TablesOfSize(2) = { << 0, 1 >> }

(* C2 amended: for N = 8 the finished output holds the tables              *)
(* [0,4,2,6,4,5,6,7], [0,2,2,3] and [0,1] for the sizes 8, 4 and 2 (each   *)
(* entry is the larger of i and its reversal).                             *)
C2_ExampleN8 ==
    (pc = "done" /\ max_n = 8) =>
        /\ TablesOfSize(8) = { << 0, 4, 2, 6, 4, 5, 6, 7 >> }
        /\ TablesOfSize(4) = { << 0, 2, 2, 3 >> }
        /\ TablesOfSize(2) = { << 0, 1 >> }

C2_Witness == pc = "done" /\ max_n = 8 /\ Cardinality(CompleteTables) = 4

(* C3: an input that is not a power of two, or is below 4, is rejected     *)
(* before anything is printed: the output stays empty.                     *)
C3_InvalidInputPrintsNothing == InvalidSize(max_n) => out = << >>

(* C4: for a power of two N >= 4 the sizes of the sine tables emitted are  *)
(* N, N/2, ..., 4 in this order, each once, with one table per size and    *)
(* none for a size of 2 or less.                                           *)
C4_SineChain ==
    (IsPow2(max_n) /\ max_n >= 4) =>
        /\ IsPrefix(GuardSizes, DescChain(max_n))
        /\ Cardinality(Positions("sine_open")) = Cardinality(Guards)
        /\ \A g \in Guards : out[g + 1].tag = "sine_open"
        /\ \A j \in 1..Len(GuardSizes) : GuardSizes[j] >= 4
        /\ \A j \in 1..(Len(GuardSizes) - 1) : GuardSizes[j + 1] < GuardSizes[j]
        /\ (SineDone => GuardSizes = DescChain(max_n))

C4_Witness == pc = "done" /\ max_n = 16 /\ GuardSizes = << 16, 8, 4 >>

(* C5: for a power of two N >= 1 the finished collection holds log2(N)+1   *)
(* tables, and the table at 0-based position k has 2^k entries, from size  *)
(* 1 up to size N.                                                         *)
C5_BitrevChain ==
    (IsPow2(max_n) /\ max_n >= 1) =>
        /\ \A p \in CompleteTables : Len(TableAt(p)) = 2 ^ TableRank(p)
        /\ (pc = "done" =>
              /\ CompleteTables = Positions("table_open")
              /\ Cardinality(CompleteTables) = Log2Of(max_n) + 1
              /\ {Len(TableAt(p)) : p \in CompleteTables}
                    = {2 ^ b : b \in 0..Log2Of(max_n)})

C5_Witness ==
    /\ pc = "done"
    /\ max_n = 16
    /\ Cardinality(CompleteTables) = 5
    /\ \E p \in CompleteTables : TableRank(p) = 4 /\ Len(TableAt(p)) = 16

(* the samples of the closed sine table opened at position p *)
SamplesAt(p) == [j \in 1..(NextAfter(p, "sine_close") - p - 1) |-> out[p + j]]

(* the size of the guard that the sine table opened at p stands under *)
SizeAt(p) == out[p - 1].x

(* C6: the sine table of size n holds max(0, n/4 - 1) samples, the j-th    *)
(* being the one for k = j (k = 0 and k = n/4 are left out); the table of  *)
(* size 4 is empty and the table of size 8 has one sample.                 *)
C6_SineLength ==
    \A p \in CompleteSineTables :
        LET S == SamplesAt(p)
            m == SizeAt(p)
        IN /\ Len(S) = (IF (m \div 4) - 1 > 0 THEN (m \div 4) - 1 ELSE 0)
           /\ \A j \in 1..Len(S) : S[j] = Tok("sine", (0 - 2) * j, m)
           /\ (m = 4 => Len(S) = 0)
           /\ (m = 8 => Len(S) = 1)

C6_Witness ==
    \E p \in CompleteSineTables :
        /\ SizeAt(p) = 16
        /\ Len(SamplesAt(p)) = 3
        /\ SamplesAt(p)[3] = Tok("sine", 0 - 6, 16)

(* the "if" that starts the chain the guard g belongs to, 0 if none *)
ChainStart(g) ==
    IF \E h \in Positions("if") : h <= g
    THEN MaxOf({h \in Positions("if") : h <= g})
    ELSE 0

(* the branches compiled when exactly the size features in F are enabled:  *)
(* a branch is taken if its feature is on and no earlier branch of its     *)
(* chain is                                                                *)
ActiveBranches(F) ==
    {g \in Guards :
        /\ out[g].x \in F
        /\ ~\E h \in Guards : h >= ChainStart(g) /\ h < g /\ out[h].x \in F}

(* C8: the sine branches form one if / else-if chain: the first guard is   *)
(* an "if" for size N, every later guard an "else if"; each branch holds   *)
(* one table, of the guard's size, and is closed before the next guard;    *)
(* whatever features are enabled, at most one branch is active.            *)
C8_GuardChain ==
    /\ \A g \in Guards :
          /\ (out[g].tag = "if") <=> (g = MinOf(Guards))
          /\ (g = MinOf(Guards) => out[g].x = max_n)
          /\ out[g + 1].tag = "sine_open"
          /\ LET c == NextAfter(g, "branch_close")
                 e == IF c > 0 THEN c ELSE Len(out) + 1
             IN /\ \A q \in (g + 1)..(e - 1) : q \notin Guards
                /\ Cardinality({q \in (g + 1)..(e - 1) : out[q].tag = "sine_open"}) = 1
                /\ \A q \in (g + 1)..(e - 1) : out[q].tag = "sine" => out[q].y = out[g].x
                /\ (c > 0 =>
                      Cardinality({q \in (g + 1)..(c - 1) : out[q].tag = "sine_close"}) = 1)
                /\ \A h \in Guards : h > g => (c > 0 /\ c < h)
    /\ \A F \in SUBSET {out[g].x : g \in Guards} : Cardinality(ActiveBranches(F)) <= 1

C8_Witness ==
    /\ pc = "done"
    /\ max_n = 16
    /\ Cardinality(Positions("else if")) = 2
    /\ Cardinality(Positions("branch_close")) = 3

(* C9: for every integer input the run reaches the end of main.            *)
C9_Terminates == <>(pc = "done")

C9_Witness == pc = "done" /\ max_n < 0

(* the array a consumer obtains from the identity by swapping the slots i  *)
(* and T[i], for i = 0, 1, ..., whenever T[i] # i                          *)
RECURSIVE ApplySwaps(_, _, _)
ApplySwaps(T, a, idx) ==
    IF idx >= Len(T) THEN a
    ELSE LET j == T[idx + 1] IN
         ApplySwaps(T,
                    IF j # idx
                    THEN [a EXCEPT ![idx + 1] = a[j + 1], ![j + 1] = a[idx + 1]]
                    ELSE a,
                    idx + 1)

(* C10: on the indices of every emitted table of size n = 2^b,             *)
(* reverse_bits(., b) is an involution; every entry T[i] lies in i..n-1;   *)
(* T[i] = j # i implies T[j] = j; and swapping i with T[i] wherever        *)
(* T[i] # i turns the identity into the bit-reversal permutation.          *)
C10_SwapPairs ==
    \A p \in CompleteTables :
        LET T == TableAt(p)
            m == Len(T)
        IN /\ IsPow2(m)
           /\ \A idx \in 0..(m - 1) :
                 /\ reverse_bits(idx, Log2Of(m)) \in 0..(m - 1)
                 /\ reverse_bits(reverse_bits(idx, Log2Of(m)), Log2Of(m)) = idx
                 /\ idx <= T[idx + 1]
                 /\ T[idx + 1] <= m - 1
                 /\ (T[idx + 1] # idx => T[T[idx + 1] + 1] = T[idx + 1])
           /\ ApplySwaps(T, [j \in 1..m |-> j - 1], 0)
                 = [j \in 1..m |-> RevSpec(j - 1, Log2Of(m))]

C10_Witness ==
    \E p \in CompleteTables :
        LET T == TableAt(p) IN Len(T) = 16 /\ T[2] = 8 /\ T[9] = 8

====
